---- MODULE Spec2Model ----
(***************************************************************************)
(* Model of ggoodman/ts-statemachine.                                      *)
(*                                                                         *)
(* Two engines live in the repository:                                     *)
(*   - StateMachine        (string keyed states, cancellation tokens)      *)
(*   - FiniteStateMachine  (typed states, execute / transition handlers)   *)
(*                                                                         *)
(* JavaScript is single threaded: the only concurrency is re-entrancy, so  *)
(* the model keeps an explicit call stack.  User supplied functions        *)
(* (conditions, onEnter callbacks, listeners, execute handlers) are frames *)
(* on that stack whose behaviour is nondeterministic: they may call send,  *)
(* return, or throw.  CancellationTokenSource.cancel()/dispose() belong to *)
(* the ts-primitives package and are modelled as flag updates.             *)
(***************************************************************************)
EXTENDS Integers, Sequences, FiniteSets, TLC

\* Bound on the number of send calls that are accepted over one run.
MaxSends == 3
MaxBuilderCalls == 1

VARIABLES
    machine,              \* which class the instance under study belongs to
    phase,                \* "new" | "constructed" | "failed" (constructor outcome)
    table,                \* StateMachine: the transitions table handed to the constructor
    internalState,        \* StateMachine.internalState
    eventQueue,           \* StateMachine.eventQueue
    enqueueEvents,        \* StateMachine.enqueueEvents
    executingCondition,   \* StateMachine.executingCondition
    pendingCancellations, \* StateMachine.pendingCancellations (token ids)
    tokens,               \* token sources created so far and their cancel / dispose order
    toDispose,            \* StateMachine.toDispose (the emitters registered for disposal)
    builder,              \* TransitionsBuilder._transitions (names of the declared states)
    definition,           \* FiniteStateMachine.definition: the frozen copy made by toJSON(),
                          \* whose entries are the StateBuilder objects of the builder
    currentState,         \* FiniteStateMachine._currentState
    bufferedEvents,       \* FiniteStateMachine._bufferedEvents
    handlingEvent,        \* FiniteStateMachine._handlingEvent
    lifecycle,            \* FiniteStateMachine._state: "initial" | "started" | "finished"
    stack,                \* the JavaScript call stack, innermost frame last
    nsent,                \* number of events accepted so far (ids of accepted events)
    dispatched,           \* ids of the events taken out of the queue, in order
    notifs,               \* notifications fired and onEnter callbacks invoked so far, in order
    result,               \* outcome of the most recent call that completed
    thrown                \* TRUE once a call has ended with an error thrown by a user function
                          \* or by the engine reading a missing state definition

smvars == <<table, internalState, eventQueue, enqueueEvents, executingCondition,
            pendingCancellations, tokens, toDispose>>

fsmvars == <<definition, currentState, bufferedEvents, handlingEvent, lifecycle>>

vars == <<machine, phase, smvars, builder, fsmvars, stack, nsent, dispatched, notifs, result, thrown>>

\* ------------------------------------------------------------------------
\* StateMachine: transitions tables
\* ------------------------------------------------------------------------
Undefined == "undefined"
Final == "Final"
NoType == "none"
Initialize == [name |-> "Initialize", id |-> 0]

\* One Transition<TStates>: an optional condition and a target
T(hasCondition, target) == [condition |-> hasCondition, target |-> target]

\* One entry of StateMachineTransitions: optional on, optional onEnter, optional type
S(name, type, hasOn, on, onEnter) ==
    [name |-> name, type |-> type, hasOn |-> hasOn, on |-> on, onEnter |-> onEnter]

NoOn == [e \in {} |-> <<>>]

\* The catalogue of the README and of examples/example.ts
ReadmeTable ==
    [id |-> "readme", initial |-> "Idle", events |-> {"Start", "Stop"},
     states |-> <<
        S("Idle", NoType, TRUE,
          [e \in {"Start"} |-> <<T(TRUE, "Started"), T(FALSE, "Alarming")>>], FALSE),
        S("Started", NoType, TRUE, [e \in {"Stop"} |-> <<T(FALSE, "Stopped")>>], FALSE),
        S("Alarming", Final, FALSE, NoOn, FALSE),
        S("Stopped", Final, FALSE, NoOn, FALSE) >>]

\* The catalogue of the tests 'will only transition when conditions are met'
\* and 'will throw if any events are generated during condition evaluation'
GuardTable ==
    [id |-> "guard", initial |-> "Started", events |-> {"Stop"},
     states |-> <<
        S("Started", NoType, TRUE, [e \in {"Stop"} |-> <<T(TRUE, "Stopped")>>], FALSE),
        S("Stopped", Final, FALSE, NoOn, FALSE) >>]

\* The catalogue of the test 'will start a state machine'
FinalOnlyTable ==
    [id |-> "finalonly", initial |-> "Start", events |-> {"Start"},
     states |-> << S("Start", Final, FALSE, NoOn, FALSE) >>]

\* The catalogues of the tests 'will throw a TypeError ...'
NoFinalTable ==
    [id |-> "nofinal", initial |-> "Start", events |-> {"Start"},
     states |-> << S("Start", NoType, FALSE, NoOn, FALSE) >>]

FinalWithOnTable ==
    [id |-> "finalwithon", initial |-> "Start", events |-> {"Start"},
     states |-> << S("Start", Final, TRUE, [e \in {"Start"} |-> <<T(FALSE, "Start")>>], FALSE) >>]

\* A catalogue with onEnter callbacks, a guarded transition with a fallback
\* self-transition, guarded transitions without fallback, and a Final state
\* with an onEnter callback
EnterTable ==
    [id |-> "enter", initial |-> "A", events |-> {"Go", "Stop"},
     states |-> <<
        S("A", NoType, TRUE,
          [e \in {"Go", "Stop"} |->
              IF e = "Go" THEN <<T(TRUE, "B"), T(FALSE, "A")>> ELSE <<T(FALSE, "F")>>], TRUE),
        S("B", NoType, TRUE,
          [e \in {"Go", "Stop"} |->
              IF e = "Go" THEN <<T(TRUE, "A")>> ELSE <<T(TRUE, "F")>>], TRUE),
        S("F", Final, FALSE, NoOn, TRUE) >>]

\* A catalogue whose second Final state declares .on transitions
LateFinalTable ==
    [id |-> "latefinal", initial |-> "A", events |-> {"Go"},
     states |-> <<
        S("E", Final, FALSE, NoOn, FALSE),
        S("A", NoType, TRUE, [e \in {"Go"} |-> <<T(FALSE, "G")>>], FALSE),
        S("G", Final, TRUE, [e \in {"Go"} |-> <<T(FALSE, "A")>>], FALSE) >>]

SMTables == {ReadmeTable, GuardTable, FinalOnlyTable, NoFinalTable, FinalWithOnTable,
             EnterTable, LateFinalTable}

NoFState == [stateName |-> Undefined, data |-> 0]

NoDefinition == [id |-> "none", initial |-> NoFState, events |-> {}, states |-> <<>>]

NoTable == [id |-> "none", initial |-> Undefined, events |-> {}, states |-> <<>>]

\* this.transitions[state]
Def(t, s) == t.states[CHOOSE i \in 1..Len(t.states) : t.states[i].name = s]

\* ------------------------------------------------------------------------
\* StateMachine: constructor
\* ------------------------------------------------------------------------
\* The for..in loop of the constructor stops at the first state of type Final
FirstFinal(t) ==
    LET F == {i \in 1..Len(t.states) : t.states[i].type = Final}
    IN  IF F = {} THEN 0 ELSE CHOOSE i \in F : \A j \in F : i <= j

\* a variant of ConstructorOutcome without the hasFinal test
ConstructorOutcomeWithoutHasFinal(t) ==
    LET i == FirstFinal(t)
    IN  IF i # 0 /\ t.states[i].hasOn THEN "TypeError: final state with on" ELSE "ok"

ConstructorOutcome(t) ==
    LET i == FirstFinal(t)
    IN  IF i = 0 THEN "TypeError: no final state"
        ELSE IF t.states[i].hasOn THEN "TypeError: final state with on"
        ELSE "ok"

\* get isDone()
isDone == IF internalState = Undefined THEN FALSE
          ELSE Def(table, internalState).type = Final

\* ------------------------------------------------------------------------
\* Call stack frames
\* ------------------------------------------------------------------------
NoEvent == [name |-> "none", id |-> 0]

\* Frames of the engine's own functions
StartFrame == [fn |-> "start"]
SendFrame(event, state) == [fn |-> "send", ev |-> event, state |-> state]
\* flushEventQueue: ev, idx are the locals of the loops; state, nnotifs and evals
\* record the state and the number of notifications when ev was shifted and
\* the outcomes of the conditions evaluated for it
FlushFrame == [fn |-> "flush", pc |-> "loop", ev |-> NoEvent, idx |-> 0, evals |-> <<>>,
               state |-> Undefined, nnotifs |-> 0]
EnterFrame(state, event, changed, tok, callbacks) ==
    [fn |-> "enter", pc |-> "callbacks", state |-> state, ev |-> event,
     changed |-> changed, tok |-> tok, callbacks |-> callbacks]
\* Frames of user functions
ConditionFrame == [fn |-> "cond", refused |-> FALSE, actual |-> internalState]
CallbackFrame(kind, enter) ==
    [fn |-> "cb", kind |-> kind, tok |-> enter.tok, state |-> enter.state,
     changed |-> enter.changed, actual |-> internalState]

Top == stack[Len(stack)]
Below == SubSeq(stack, 1, Len(stack) - 1)
TopIs(fn) == stack # <<>> /\ Top.fn = fn
Outside == stack = <<>>

Return(call, val) == [call |-> call, status |-> "return", val |-> val]
Throw(call, err) == [call |-> call, status |-> "throw", val |-> err]
NoResult == [call |-> "none", status |-> "none", val |-> "none"]

\* ------------------------------------------------------------------------
\* StateMachine: enterMachineState
\* ------------------------------------------------------------------------
\* the emitters the constructor registers in toDispose
Registered == <<"doneEmitter", "stateChangeEmitter">>

\* the emitter behind a callback of the callbacks array; onEnter has none
EmitterOf(kind) ==
    CASE kind = "stateChange" -> "stateChangeEmitter"
      [] kind = "done" -> "doneEmitter"
      [] OTHER -> "none"

\* fire() reaches the listeners of an emitter until the emitter is disposed;
\* an emitter of a constructed instance is disposed once it has left toDispose
Listening(kind, registered) ==
    EmitterOf(kind) = "none" \/ \E i \in 1..Len(registered) : registered[i] = EmitterOf(kind)

\* a variant of Callbacks that leaves out the state-change notification
CallbacksWithoutStateChange(def, changed) ==
    (IF def.onEnter THEN <<"onEnter">> ELSE <<>>)
    \o (IF def.type = Final THEN <<"done">> ELSE <<>>)

\* a variant of Callbacks that does not call onEnter
CallbacksWithoutOnEnter(def, changed) ==
    (IF changed THEN <<"stateChange">> ELSE <<>>)
    \o (IF def.type = Final THEN <<"done">> ELSE <<>>)

\* a variant of Callbacks that calls onEnter only when the state has changed
CallbacksOnChange(def, changed) ==
    (IF changed THEN <<"stateChange">> ELSE <<>>)
    \o (IF def.onEnter /\ changed THEN <<"onEnter">> ELSE <<>>)
    \o (IF def.type = Final THEN <<"done">> ELSE <<>>)

\* The callbacks array built by enterMachineState
Callbacks(def, changed) ==
    (IF changed THEN <<"stateChange">> ELSE <<>>)
    \o (IF def.onEnter THEN <<"onEnter">> ELSE <<>>)
    \o (IF def.type = Final THEN <<"done">> ELSE <<>>)

\* a variant of CancelPending that leaves the oldest pending token alone
CancelPendingButOldest(changed, pending, toks) ==
    IF changed /\ pending # <<>>
    THEN [toks EXCEPT !.cancelled = @ \o Tail(pending), !.disposed = @ \o Tail(pending)]
    ELSE toks

\* The shift loop over pendingCancellations: cancel() then dispose(), oldest first
CancelPending(changed, pending, toks) ==
    IF changed
    THEN [toks EXCEPT !.cancelled = @ \o pending, !.disposed = @ \o pending]
    ELSE toks

\* pendingCancellations after the shift loop and the push of the new token source
PendingAfterEnter(changed, pending, def, tok) ==
    (IF changed THEN <<>> ELSE pending) \o (IF def.onEnter THEN <<tok>> ELSE <<>>)

\* enterMachineState(state, event) up to the first callback; callers is the
\* stack of the frames that wait for it to return
EnterMachineState(state, event, callers) ==
    LET def == Def(table, state)
        changed == internalState # state
        tok == tokens.created + 1
        toks == CancelPending(changed, pendingCancellations, tokens)
    IN  /\ internalState' = state
        /\ pendingCancellations' = PendingAfterEnter(changed, pendingCancellations, def, tok)
        /\ tokens' = [toks EXCEPT !.created = IF def.onEnter THEN tok ELSE @]
        /\ enqueueEvents' = TRUE
        /\ stack' = Append(callers,
                EnterFrame(state, event, changed, IF def.onEnter THEN tok ELSE 0,
                           Callbacks(def, changed)))

\* callback(): the next callback of the array is invoked
SM_RunCallback ==
    /\ machine = "SM" /\ TopIs("enter") /\ Top.pc = "callbacks" /\ Top.callbacks # <<>>
    /\ LET kind == Head(Top.callbacks)
       IN  /\ stack' = IF Listening(kind, toDispose)
                       THEN Append(Append(Below, [Top EXCEPT !.callbacks = Tail(@)]),
                                   CallbackFrame(kind, Top))
                       ELSE Append(Below, [Top EXCEPT !.callbacks = Tail(@)])
           /\ notifs' = Append(notifs, [type |-> kind, event |-> Top.ev, state |-> Top.state])
    /\ UNCHANGED <<machine, builder, phase, fsmvars, smvars, nsent, dispatched, result, thrown>>

\* a listener or an onEnter callback returns
SM_CallbackReturn ==
    /\ machine = "SM" /\ TopIs("cb")
    /\ stack' = Below
    /\ UNCHANGED <<machine, builder, phase, fsmvars, smvars, nsent, dispatched, notifs, result, thrown>>

\* an onEnter callback throws: nothing in enterMachineState, flushEventQueue,
\* send or start catches, so the whole stack unwinds to the outside caller
SM_CallbackThrow ==
    /\ machine = "SM" /\ TopIs("cb") /\ Top.kind = "onEnter"
    /\ stack' = <<>>
    /\ result' = Throw(stack[1].fn, "onEnter threw")
    /\ thrown' = TRUE
    /\ UNCHANGED <<machine, builder, phase, fsmvars, smvars, nsent, dispatched, notifs>>

\* the callbacks array is empty: enqueueEvents = false; this.flushEventQueue()
SM_CallbacksDone ==
    /\ machine = "SM" /\ TopIs("enter") /\ Top.pc = "callbacks" /\ Top.callbacks = <<>>
    /\ enqueueEvents' = FALSE
    /\ stack' = Append(Append(Below, [Top EXCEPT !.pc = "flush"]),
                       FlushFrame)
    /\ UNCHANGED <<machine, builder, phase, fsmvars, table, toDispose,
                   internalState, eventQueue, executingCondition,
                   pendingCancellations, tokens, nsent, dispatched, notifs, result, thrown>>

\* ------------------------------------------------------------------------
\* StateMachine: flushEventQueue
\* ------------------------------------------------------------------------
\* this.transitions[this.internalState].on[event], or <<>> when there is none
EligibleTransitions(def, name) ==
    IF def.hasOn /\ name \in DOMAIN def.on THEN def.on[name] ELSE <<>>

\* while (this.eventQueue.length): shift the next event and look up its transitions
SM_FlushNext ==
    /\ machine = "SM" /\ TopIs("flush") /\ Top.pc = "loop" /\ eventQueue # <<>>
    /\ LET event == Head(eventQueue)
           eligible == EligibleTransitions(Def(table, internalState), event.name)
       IN  /\ eventQueue' = Tail(eventQueue)
           /\ dispatched' = Append(dispatched, event.id)
           /\ stack' = Append(Below,
                  IF eligible = <<>>
                  THEN [Top EXCEPT !.ev = event, !.idx = 0, !.evals = <<>>,
                                   !.state = internalState, !.nnotifs = Len(notifs)]
                  ELSE [Top EXCEPT !.pc = "for", !.ev = event, !.idx = 1, !.evals = <<>>,
                                   !.state = internalState, !.nnotifs = Len(notifs)])
    /\ UNCHANGED <<machine, builder, phase, fsmvars, table, toDispose,
                   internalState, enqueueEvents, executingCondition,
                   pendingCancellations, tokens, nsent, notifs, result, thrown>>

\* for (const transition of eligibleTransitions): a transition without condition
\* is allowed at once, a condition is called with executingCondition = true
SM_TryTransition ==
    /\ machine = "SM" /\ TopIs("flush") /\ Top.pc = "for"
    /\ LET transition == EligibleTransitions(Def(table, internalState), Top.ev.name)[Top.idx]
       IN  IF transition.condition
           THEN /\ executingCondition' = TRUE
                /\ stack' = Append(stack, ConditionFrame)
                /\ UNCHANGED <<internalState, pendingCancellations, tokens, enqueueEvents>>
           ELSE /\ EnterMachineState(transition.target, Top.ev,
                       Append(Below, [Top EXCEPT !.pc = "called",
                                                 !.evals = Append(@, "none")]))
                /\ UNCHANGED executingCondition
    /\ UNCHANGED <<machine, builder, phase, fsmvars, table, toDispose,
                   eventQueue, nsent, dispatched, notifs, result, thrown>>

\* a variant of AllowTransition that takes a transition when its condition
\* returns false
AllowTransitionNegated(conditionResult) == ~conditionResult

\* const allowTransition = !transition.condition || transition.condition()
AllowTransition(conditionResult) == conditionResult

\* transition.condition() returns b; the finally block resets executingCondition
SM_ConditionReturn(b) ==
    /\ machine = "SM" /\ TopIs("cond")
    /\ executingCondition' = FALSE
    /\ LET flush == stack[Len(stack) - 1]
           callers == SubSeq(stack, 1, Len(stack) - 2)
           eligible == EligibleTransitions(Def(table, internalState), flush.ev.name)
           evals == Append(flush.evals, IF b THEN "true" ELSE "false")
       IN  IF AllowTransition(b)
           THEN EnterMachineState(eligible[flush.idx].target, flush.ev,
                    Append(callers, [flush EXCEPT !.pc = "called", !.evals = evals]))
           ELSE /\ stack' = Append(callers,
                       IF flush.idx < Len(eligible)
                       THEN [flush EXCEPT !.idx = @ + 1, !.evals = evals]
                       ELSE [flush EXCEPT !.pc = "loop", !.evals = evals])
                /\ UNCHANGED <<internalState, pendingCancellations, tokens, enqueueEvents>>
    /\ UNCHANGED <<machine, builder, phase, fsmvars, table, toDispose,
                   eventQueue, nsent, dispatched, notifs, result, thrown>>

\* transition.condition() throws (an error of its own, or the error of a send
\* it attempted): the finally block resets executingCondition and the error
\* leaves flushEventQueue and every caller
SM_ConditionThrow ==
    /\ machine = "SM" /\ TopIs("cond")
    /\ executingCondition' = FALSE
    /\ stack' = <<>>
    /\ result' = Throw(stack[1].fn, IF Top.refused
                                    THEN "Events cannot be submitted while executing a condition test"
                                    ELSE "condition threw")
    /\ thrown' = TRUE
    /\ UNCHANGED <<machine, builder, phase, fsmvars, table, toDispose,
                   internalState, eventQueue, enqueueEvents,
                   pendingCancellations, tokens, nsent, dispatched, notifs>>

\* the queue is empty: flushEventQueue returns to send, or to enterMachineState,
\* which returns to start or to the for loop of the flushEventQueue that called
\* it (break, then the while test)
SM_FlushDone ==
    /\ machine = "SM" /\ TopIs("flush") /\ Top.pc = "loop" /\ eventQueue = <<>>
    /\ LET caller == stack[Len(stack) - 1]
           rest == SubSeq(stack, 1, Len(stack) - 2)
       IN  IF caller.fn = "send"
           THEN /\ stack' = rest
                /\ result' = Return("send", internalState)
           ELSE LET outer == rest[Len(rest)]
                    callers == SubSeq(rest, 1, Len(rest) - 1)
                IN  IF outer.fn = "start"
                    THEN /\ stack' = callers
                         /\ result' = Return("start", internalState)
                    ELSE /\ stack' = Append(callers, [outer EXCEPT !.pc = "loop"])
                         /\ UNCHANGED result
    /\ UNCHANGED <<machine, builder, phase, fsmvars, smvars, nsent, dispatched, notifs, thrown>>

\* ------------------------------------------------------------------------
\* StateMachine: constructor, start, send
\* ------------------------------------------------------------------------
SM_Construct ==
    /\ machine = "SM" /\ phase = "new"
    /\ LET outcome == ConstructorOutcome(table)
       IN  /\ phase' = IF outcome = "ok" THEN "constructed" ELSE "failed"
           /\ result' = IF outcome = "ok" THEN Return("constructor", "instance")
                         ELSE Throw("constructor", outcome)
           \* this.toDispose.push(this.doneEmitter); ...push(this.stateChangeEmitter)
           /\ toDispose' = IF outcome = "ok" THEN Registered ELSE toDispose
    /\ UNCHANGED <<machine, builder, table, internalState, eventQueue, enqueueEvents, executingCondition,
                   pendingCancellations, tokens, fsmvars, stack, nsent, dispatched, notifs,
                   thrown>>

\* dispose(), called from outside: this.toDispose = dispose(this.toDispose)
\* disposes the registered emitters and leaves the empty array
SM_Dispose ==
    /\ machine = "SM" /\ phase = "constructed" /\ Outside
    /\ toDispose' = <<>>
    /\ result' = Return("dispose", "undefined")
    /\ UNCHANGED <<machine, builder, phase, fsmvars, table, internalState, eventQueue, enqueueEvents,
                   executingCondition, pendingCancellations, tokens, stack, nsent, dispatched,
                   notifs, thrown>>

\* start(), called from outside
SM_Start ==
    /\ machine = "SM" /\ phase = "constructed" /\ Outside
    /\ IF internalState # Undefined
       THEN /\ result' = Throw("start", "Attempting to start a state machine that is already started")
            /\ UNCHANGED <<smvars, stack>>
       ELSE /\ EnterMachineState(table.initial, Initialize, <<StartFrame>>)
            /\ UNCHANGED <<result, table, toDispose, eventQueue, executingCondition>>
    /\ UNCHANGED <<machine, builder, phase, fsmvars, nsent, dispatched, notifs, thrown>>

\* if (this.eventQueue.length === 1 && !this.enqueueEvents)
StartsFlush(queue, enqueue) == Len(queue) = 1 /\ ~enqueue

\* a variant of SendError without the executingCondition test
SendErrorUnguarded(state, executing) ==
    IF state = "undefined"
    THEN "Attempting to send an event to a state machine that has not been started"
    ELSE "ok"

\* a variant of SendError without the test that the machine was started
SendErrorUnstarted(state, executing) ==
    IF executing THEN "Events cannot be submitted while executing a condition test"
    ELSE "ok"

\* the checks of send() before the event is pushed
SendError(state, executing) ==
    IF state = Undefined
    THEN "Attempting to send an event to a state machine that has not been started"
    ELSE IF executing THEN "Events cannot be submitted while executing a condition test"
    ELSE "ok"

\* send(event), called from outside, from a callback or from a condition
SM_Send(e) ==
    /\ machine = "SM" /\ phase = "constructed"
    /\ Outside \/ TopIs("cb") \/ (TopIs("cond") /\ ~Top.refused)
    /\ LET err == SendError(internalState, executingCondition)
           event == [name |-> e, id |-> nsent + 1]
           queue == Append(eventQueue, event)
       IN  IF err # "ok"
           THEN /\ result' = Throw("send", err)
                /\ stack' = IF Outside THEN stack
                             ELSE Append(Below, [Top EXCEPT !.refused = TRUE])
                /\ UNCHANGED <<eventQueue, nsent>>
           ELSE /\ nsent < MaxSends
                /\ eventQueue' = queue
                /\ nsent' = nsent + 1
                /\ IF StartsFlush(queue, enqueueEvents)
                   THEN /\ stack' = stack \o <<SendFrame(event, internalState), FlushFrame>>
                        /\ UNCHANGED result
                   ELSE /\ stack' = stack
                        /\ result' = Return("send", internalState)
    /\ UNCHANGED <<machine, builder, phase, fsmvars, table, toDispose,
                   internalState, enqueueEvents, executingCondition,
                   pendingCancellations, tokens, dispatched, notifs, thrown>>


\* ------------------------------------------------------------------------
\* FiniteStateMachine: catalogues built with defineMachine()
\* ------------------------------------------------------------------------
Intermediate == "Intermediate"
StartEvent == [name |-> "@@Start", id |-> 0]

FState(name, data) == [stateName |-> name, data |-> data]

\* StateBuilder.onEnterExecute / onExitExecute / onEventExecute
Execute(hasCondition) ==
    [type |-> "execute", condition |-> hasCondition, target |-> NoFState]
\* StateBuilder.onEnterTransition / onEventTransition
Transition(hasCondition, target) ==
    [type |-> "transition", condition |-> hasCondition, target |-> target]

\* TransitionsBuilder.state / finalState
D(name, kind, onEnter, onExit, onEvent) ==
    [name |-> name, kind |-> kind, onEnter |-> onEnter, onExit |-> onExit, onEvent |-> onEvent]

\* A catalogue with entry, exit and event handlers of both variants
HandlerDefinition ==
    [id |-> "handlers", initial |-> FState("P", 0), events |-> {"go", "fin"},
     states |-> <<
        D("P", Intermediate,
          <<Execute(FALSE), Transition(TRUE, FState("Q", 0))>>,
          <<Execute(FALSE)>>,
          [e \in {"go", "fin"} |->
              IF e = "go"
              THEN <<Execute(TRUE), Transition(TRUE, FState("Q", 1)),
                     Transition(FALSE, FState("P", 1)), Execute(FALSE)>>
              ELSE <<Transition(FALSE, FState("R", 0))>>]),
        D("Q", Intermediate,
          <<Execute(FALSE), Execute(TRUE)>>,
          <<Execute(FALSE)>>,
          [e \in {"go", "fin"} |->
              IF e = "go" THEN <<Transition(FALSE, FState("P", 0))>>
              ELSE <<Execute(FALSE), Transition(TRUE, FState("R", 1))>>]),
        D("R", Final, <<Execute(FALSE)>>, <<>>, NoOn) >>]

\* A catalogue with one intermediate state, whose entry handler may send, and
\* two Final states without handlers
SettleDefinition ==
    [id |-> "settle", initial |-> FState("Pending", 0),
     events |-> {"resolve", "reject"},
     states |-> <<
        D("Pending", Intermediate, <<Execute(FALSE)>>, <<>>,
          [e \in {"resolve", "reject"} |->
              IF e = "resolve"
              THEN <<Transition(FALSE, FState("Resolved", 1))>>
              ELSE <<Transition(FALSE, FState("Rejected", 1))>>]),
        D("Resolved", Final, <<>>, <<>>, NoOn),
        D("Rejected", Final, <<>>, <<>>, NoOn) >>]

\* A catalogue whose Final state, built with finalState(name, buildFn), has an
\* entry handler that may send and a handler for the event go
FinalHandlerDefinition ==
    [id |-> "finalhandler", initial |-> FState("P", 0), events |-> {"go", "fin"},
     states |-> <<
        D("P", Intermediate, <<>>, <<>>,
          [e \in {"fin"} |-> <<Transition(FALSE, FState("R", 0))>>]),
        D("R", Final, <<Execute(FALSE)>>, <<>>,
          [e \in {"go"} |-> <<Transition(FALSE, FState("P", 1))>>]) >>]

\* A catalogue instantiated in its Final state, whose entry handler is a
\* guarded transition to the intermediate state
FinalInitialDefinition ==
    [id |-> "finalinitial", initial |-> FState("R", 0), events |-> {"fin"},
     states |-> <<
        D("P", Intermediate, <<>>, <<>>,
          [e \in {"fin"} |-> <<Transition(FALSE, FState("R", 1))>>]),
        D("R", Final, <<Transition(TRUE, FState("P", 1))>>, <<>>, NoOn) >>]

\* The catalogue of fromPromise(promise): the only declared state is
\* '@@promisePending'; its entry handler registers the two callbacks of
\* promise.then, its event handlers compute the resolved state carrying the
\* value (data 1) and the rejected state carrying the error (data 2)
PromisePending == "@@promisePending"
PromiseResolved == "@@promiseResolved"
PromiseRejected == "@@promiseRejected"
PromiseResolve == "@@promiseResolve"
PromiseReject == "@@promiseReject"

FromPromiseDefinition ==
    [id |-> "fromPromise", initial |-> FState(PromisePending, 0),
     events |-> {PromiseResolve, PromiseReject},
     states |-> <<
        D(PromisePending, Intermediate, <<Execute(FALSE)>>, <<>>,
          [e \in {PromiseResolve, PromiseReject} |->
              IF e = PromiseResolve
              THEN <<Transition(FALSE, FState(PromiseResolved, 1))>>
              ELSE <<Transition(FALSE, FState(PromiseRejected, 2))>>]) >>]

FSMDefinitions ==
    {HandlerDefinition, SettleDefinition, FinalHandlerDefinition, FinalInitialDefinition,
     FromPromiseDefinition}

\* the keys of a catalogue
StateNames(d) == {d.states[i].name : i \in 1..Len(d.states)}

\* the builder that declared the states of the catalogue d
BuilderOf(d) == [names |-> StateNames(d), calls |-> 0]

NoBuilder == [names |-> {}, calls |-> 0]

\* a state name that no catalogue declares
NewState == "N"

\* onEvent.push({ condition, execute }) of onEventExecute(eventName, execute)
\* on the StateBuilder object of the state name
OnEventExecute(d, name, e) ==
    [d EXCEPT !.states = [i \in 1..Len(d.states) |->
        IF d.states[i].name # name THEN d.states[i]
        ELSE [d.states[i] EXCEPT !.onEvent =
                 [x \in (DOMAIN @) \cup {e} |->
                     IF x \in DOMAIN @ THEN (IF x = e THEN Append(@[x], Execute(FALSE)) ELSE @[x])
                     ELSE <<Execute(FALSE)>>]]]]

\* the value of this.definition[stateName] for a name the catalogue lacks
NoStateDefinition == D(Undefined, Undefined, <<>>, <<>>, NoOn)

\* this.definition[stateName]
FDef(d, name) ==
    IF name \in StateNames(d)
    THEN d.states[CHOOSE i \in 1..Len(d.states) : d.states[i].name = name]
    ELSE NoStateDefinition

\* ------------------------------------------------------------------------
\* FiniteStateMachine: runHandlers
\* ------------------------------------------------------------------------
\* a call of runHandlers(eventHandlers, event): handlers, ev are its arguments,
\* idx is the position of the for loop; kind and expected record which list
\* this is and the state it is run for, evals the outcome of the condition of
\* each handler decided so far, ran and skipped the handlers called and passed over
RunFrame(handlers, event, kind, expected) ==
    [fn |-> "run", pc |-> "loop", handlers |-> handlers, ev |-> event, idx |-> 1,
     kind |-> kind, expected |-> expected, evals |-> <<>>, ran |-> <<>>, skipped |-> <<>>]

\* the frame of a user function (condition or execute) called by runHandlers
UserFrame(fn, run) ==
    [fn |-> fn, kind |-> run.kind, ev |-> run.ev, expected |-> run.expected,
     actual |-> currentState]

\* a call of transitionTo(event, nextState); from is its local fromState
TransitionFrame(event, nextState, fromState) ==
    [fn |-> "trans", pc |-> "exit", ev |-> event, next |-> nextState, from |-> fromState]

\* a listener of onDidReceiveEvent or onDidTransition that has been called
ListenerFrame(kind, event, state) ==
    [fn |-> "listen", kind |-> kind, ev |-> event, expected |-> state, actual |-> state]

\* a variant of NamesDiffer that compares the payload as well
StatesDiffer(nextState, current) == nextState # current

\* if (nextState.stateName !== currentState.stateName)
NamesDiffer(nextState, current) == nextState.stateName # current.stateName

\* the handler at run.idx is valid: it is called.  An execute handler gets
\* control; a transition handler computes the next state and, if its name
\* differs, transitionTo starts with the onExit handlers; then break
Invoke(run, callers) ==
    LET h == run.handlers[run.idx]
        ran == [run EXCEPT !.ran = Append(@, run.idx)]
    IN  IF h.type = "execute"
        THEN stack' = callers \o <<ran, UserFrame("exec", run)>>
        ELSE IF NamesDiffer(h.target, currentState)
        THEN stack' = callers \o
                <<[ran EXCEPT !.pc = "break"],
                  TransitionFrame(run.ev, h.target, currentState),
                  RunFrame(FDef(definition, currentState.stateName).onExit, run.ev,
                           "exit", currentState)>>
        ELSE stack' = Append(callers, [ran EXCEPT !.pc = "break"])

RunActive == TopIs("run") /\ Top.pc = "loop" /\ Top.idx <= Len(Top.handlers)

\* for (const eventHandler of eventHandlers): a handler with a condition has
\* its condition called, one without is valid at once
FSM_RunNext ==
    /\ machine = "FSM" /\ RunActive
    /\ IF Top.handlers[Top.idx].condition
       THEN stack' = Append(stack, UserFrame("fcond", Top))
       ELSE Invoke([Top EXCEPT !.evals = Append(@, "none")], Below)
    /\ UNCHANGED <<machine, builder, phase, smvars, fsmvars, nsent, dispatched, notifs, result, thrown>>

\* if (valid)
Valid(conditionResult) == conditionResult

\* eventHandler.condition(...) returns b
FSM_ConditionReturn(b) ==
    /\ machine = "FSM" /\ TopIs("fcond")
    /\ LET run == [stack[Len(stack) - 1] EXCEPT
                          !.evals = Append(@, IF b THEN "true" ELSE "false")]
           callers == SubSeq(stack, 1, Len(stack) - 2)
       IN  IF Valid(b)
           THEN Invoke(run, callers)
           ELSE stack' = Append(callers, [run EXCEPT !.idx = @ + 1,
                                                     !.skipped = Append(@, run.idx)])
    /\ UNCHANGED <<machine, builder, phase, smvars, fsmvars, nsent, dispatched, notifs, result, thrown>>

\* a variant of AfterExecute in which an execute handler ends the loop, as a
\* transition handler does
AfterExecuteBreaks(run) == [run EXCEPT !.pc = "break"]

\* eventHandler.execute(...) returns: the loop goes on with the next handler
AfterExecute(run) == [run EXCEPT !.idx = @ + 1]

FSM_ExecuteReturn ==
    /\ machine = "FSM" /\ TopIs("exec")
    /\ stack' = Append(SubSeq(stack, 1, Len(stack) - 2), AfterExecute(stack[Len(stack) - 1]))
    /\ UNCHANGED <<machine, builder, phase, smvars, fsmvars, nsent, dispatched, notifs, result, thrown>>

\* a condition, an execute function or a transition function throws: nothing
\* in runHandlers, transitionTo, handleEvent, send or start catches
FSM_HandlerThrow ==
    /\ machine = "FSM"
    \* the handlers of fromPromise are the functions of async.ts, which do not throw
    /\ definition.id # "fromPromise"
    /\ \/ TopIs("fcond")
       \/ TopIs("exec")
       \/ RunActive /\ Top.handlers[Top.idx].type = "transition"
                    /\ ~Top.handlers[Top.idx].condition
    /\ stack' = <<>>
    /\ result' = Throw(stack[1].fn, "handler threw")
    /\ thrown' = TRUE
    /\ UNCHANGED <<machine, builder, phase, smvars, fsmvars, nsent, dispatched, notifs>>

\* ------------------------------------------------------------------------
\* FiniteStateMachine: transitionTo, handleEvent, send, start
\* ------------------------------------------------------------------------
\* this.definition[currentStateName].onEvent[eventType] || []
EventHandlers(def, name) == IF name \in DOMAIN def.onEvent THEN def.onEvent[name] ELSE <<>>

RunFinished == TopIs("run") /\ (Top.pc = "break" \/ Top.idx > Len(Top.handlers))

\* if (nextStateDefinition.kind === StateKind.Final) this._state = 'finished'
LifecycleAfterEnter(kind, current) == IF kind = Final THEN "finished" ELSE current

\* runHandlers returns to its caller
FSM_RunReturn ==
    /\ machine = "FSM" /\ RunFinished
    /\ LET caller == stack[Len(stack) - 1]
           callers == SubSeq(stack, 1, Len(stack) - 2)
       IN  CASE caller.fn = "handle" ->
                  \* handleEvent returns to the while loop of send
                  /\ stack' = callers
                  /\ UNCHANGED <<fsmvars, notifs, result>>
             [] caller.fn = "fstart" ->
                  /\ stack' = callers
                  /\ result' = Return("start", "undefined")
                  /\ UNCHANGED <<fsmvars, notifs>>
             [] caller.fn = "trans" /\ caller.pc = "exit" ->
                  \* this._currentState = {...nextState}; this._onDidTransition.fire(...)
                  /\ currentState' = caller.next
                  /\ notifs' = Append(notifs, [type |-> "transition", event |-> caller.ev,
                                               state |-> caller.next, fromState |-> caller.from])
                  /\ stack' = callers \o
                        <<[caller EXCEPT !.pc = "fire"],
                          ListenerFrame("transition", caller.ev, caller.next)>>
                  /\ UNCHANGED <<definition, bufferedEvents, handlingEvent, lifecycle, result>>
             [] caller.fn = "trans" /\ caller.pc = "enter" ->
                  \* the Final test, then transitionTo returns to the break of runHandlers
                  /\ lifecycle' = LifecycleAfterEnter(
                                      FDef(definition, caller.next.stateName).kind, lifecycle)
                  /\ stack' = callers
                  /\ UNCHANGED <<definition, currentState, bufferedEvents, handlingEvent,
                                 notifs, result>>
    /\ UNCHANGED <<machine, builder, phase, smvars, nsent, dispatched, thrown>>

\* a listener of onDidReceiveEvent or onDidTransition returns: handleEvent goes
\* on with runHandlers(eventHandlers, event), transitionTo with
\* runHandlers(onEnter, event)
FSM_ListenerReturn ==
    /\ machine = "FSM" /\ TopIs("listen")
    /\ LET caller == stack[Len(stack) - 1]
           callers == SubSeq(stack, 1, Len(stack) - 2)
       IN  IF caller.fn = "handle"
           THEN /\ stack' = callers \o
                     <<caller, RunFrame(caller.handlers, caller.ev, "event", currentState)>>
                /\ UNCHANGED <<result, thrown>>
           ELSE IF FDef(definition, caller.next.stateName) = NoStateDefinition
           THEN \* nextStateDefinition is undefined: reading .onEnter throws a TypeError
                /\ stack' = <<>>
                /\ result' = Throw(stack[1].fn, "TypeError")
                /\ thrown' = TRUE
           ELSE /\ stack' = callers \o
                     <<[caller EXCEPT !.pc = "enter"],
                       RunFrame(FDef(definition, caller.next.stateName).onEnter, caller.ev,
                                "enter", caller.next)>>
                /\ UNCHANGED <<result, thrown>>
    /\ UNCHANGED <<machine, builder, phase, smvars, fsmvars, nsent, dispatched, notifs>>

\* new FiniteStateMachine(definition, initialState), through instantiate()
FSM_Construct ==
    /\ machine = "FSM" /\ phase = "new"
    /\ phase' = "constructed"
    /\ currentState' = definition.initial
    /\ result' = Return("constructor", "instance")
    /\ UNCHANGED <<machine, builder, smvars, definition, bufferedEvents, handlingEvent, lifecycle,
                   stack, nsent, dispatched, notifs, thrown>>

\* the catalogues whose builder is called again after instantiate()
LateBuilt == {"finalhandler"}

\* builder.state(name, s => s.onEventExecute(e, execute)), or finalState for a
\* Final state, called on the builder after instantiate() has returned and
\* before the instance is started: a new name gets a new StateBuilder in
\* _transitions; a declared name yields the StateBuilder object that the
\* instance's definition holds as well
Builder_State(name, e) ==
    /\ machine = "FSM" /\ phase = "constructed" /\ Outside /\ lifecycle = "initial"
    /\ builder.calls < MaxBuilderCalls
    /\ builder' = [names |-> builder.names \cup {name}, calls |-> builder.calls + 1]
    /\ definition' = IF name \in StateNames(definition)
                     THEN OnEventExecute(definition, name, e)
                     ELSE definition
    /\ result' = Return("state", "builder")
    /\ UNCHANGED <<machine, phase, smvars, currentState, bufferedEvents, handlingEvent,
                   lifecycle, stack, nsent, dispatched, notifs, thrown>>

\* a variant of FSM_Start without the test of this._state
FSM_StartUnchecked ==
    /\ machine = "FSM" /\ phase = "constructed" /\ Outside
    /\ lifecycle' = "started"
    /\ stack' = <<[fn |-> "fstart"],
                  RunFrame(FDef(definition, currentState.stateName).onEnter,
                           StartEvent, "start", currentState)>>
    /\ UNCHANGED <<machine, builder, phase, smvars, definition, currentState, bufferedEvents,
                   handlingEvent, nsent, dispatched, notifs, result, thrown>>

\* start(), called from outside
FSM_Start ==
    /\ machine = "FSM" /\ phase = "constructed" /\ Outside
    /\ IF lifecycle # "initial"
       THEN /\ result' = Throw("start", "The state machine can't be started")
            /\ UNCHANGED <<lifecycle, stack>>
       ELSE /\ lifecycle' = "started"
            /\ stack' = <<[fn |-> "fstart"],
                          RunFrame(FDef(definition, currentState.stateName).onEnter,
                                   StartEvent, "start", currentState)>>
            /\ UNCHANGED result
    /\ UNCHANGED <<machine, builder, phase, smvars, definition, currentState, bufferedEvents,
                   handlingEvent, nsent, dispatched, notifs, thrown>>

\* The machine of fromPromise is sent one event, by the callback of
\* promise.then that runs when the promise settles: after the entry handler
\* run by start() has registered the callbacks, and not from within a call
Settles == Outside /\ lifecycle # "initial" /\ nsent = 0

\* if (this._state !== 'started') return
Accepts(state) == state = "started"

\* if (this._handlingEvent) return
OnlyBuffers(handling) == handling

\* send(event), called from outside, from an execute handler, from a condition
\* or from a listener
FSM_Send(e) ==
    /\ machine = "FSM" /\ phase = "constructed"
    /\ Outside \/ TopIs("exec") \/ TopIs("fcond") \/ TopIs("listen")
    /\ definition.id = "fromPromise" => Settles
    /\ IF ~Accepts(lifecycle)
       THEN /\ result' = Return("send", "ignored")
            /\ UNCHANGED <<bufferedEvents, handlingEvent, stack, nsent>>
       ELSE /\ nsent < MaxSends
            /\ bufferedEvents' = Append(bufferedEvents, [name |-> e, id |-> nsent + 1])
            /\ nsent' = nsent + 1
            /\ IF OnlyBuffers(handlingEvent)
               THEN /\ result' = Return("send", "buffered")
                    /\ UNCHANGED <<handlingEvent, stack>>
               ELSE /\ handlingEvent' = TRUE
                    /\ stack' = Append(stack, [fn |-> "fsend", seen |-> {}])
                    /\ UNCHANGED result
    /\ UNCHANGED <<machine, builder, phase, smvars, definition, currentState, lifecycle,
                   dispatched, notifs, thrown>>

\* what the while loop of send depends on when it tests its condition: the
\* current state and the names of the buffered events
Configuration ==
    [state |-> currentState,
     queue |-> [i \in 1..Len(bufferedEvents) |-> bufferedEvents[i].name]]

\* while (this._bufferedEvents.length): shift the next event; handleEvent looks
\* up the handlers of the event and fires onDidReceiveEvent
FSM_HandleEvent ==
    /\ machine = "FSM" /\ TopIs("fsend") /\ bufferedEvents # <<>>
    /\ LET event == Head(bufferedEvents)
       IN  /\ bufferedEvents' = Tail(bufferedEvents)
           /\ dispatched' = Append(dispatched, event.id)
           /\ notifs' = Append(notifs, [type |-> "received", event |-> event,
                                        state |-> currentState, fromState |-> NoFState])
           /\ stack' = Append(Below, [Top EXCEPT !.seen = @ \cup {Configuration}]) \o
                  <<[fn |-> "handle", ev |-> event,
                     handlers |-> EventHandlers(FDef(definition, currentState.stateName),
                                                event.name)],
                    ListenerFrame("received", event, currentState)>>
    /\ UNCHANGED <<machine, builder, phase, smvars, definition, currentState, handlingEvent, lifecycle,
                   nsent, result, thrown>>

\* the buffer is empty: this._handlingEvent = false and send returns
FSM_SendReturn ==
    /\ machine = "FSM" /\ TopIs("fsend") /\ bufferedEvents = <<>>
    /\ handlingEvent' = FALSE
    /\ stack' = Below
    /\ result' = Return("send", "drained")
    /\ UNCHANGED <<machine, builder, phase, smvars, definition, currentState, bufferedEvents, lifecycle,
                   nsent, dispatched, notifs, thrown>>

NextFSM ==
    \/ FSM_Construct
    \/ FSM_Start
    \/ \E e \in definition.events : FSM_Send(e)
    \/ FSM_HandleEvent
    \/ FSM_RunNext
    \/ \E b \in BOOLEAN : FSM_ConditionReturn(b)
    \/ FSM_ExecuteReturn
    \/ FSM_HandlerThrow
    \/ FSM_RunReturn
    \/ FSM_ListenerReturn
    \/ FSM_SendReturn
    \/ \E name \in {definition.initial.stateName, NewState}, e \in definition.events :
           definition.id \in LateBuilt /\ Builder_State(name, e)


\* ------------------------------------------------------------------------
\* Properties
\* ------------------------------------------------------------------------
UserFns == {"cb", "cond", "exec", "fcond", "listen"}
DrainFns == {"flush", "fsend"}

\* the queue of the instance under study
Queue == IF machine = "SM" THEN eventQueue ELSE bufferedEvents

\* C1 (both engines): events are dispatched in submission order, each accepted
\* event exactly once, and an event sent by a callback or handler is dispatched
\* only after the processing that was under way when it was sent has finished:
\* no drain runs on top of a user function.  Accepted events carry the ids
\* 1, 2, ... in submission order; runs in which a user function threw are not
\* required to have dispatched every accepted event.
C1_DispatchOrder == \A i \in 1..Len(dispatched) : dispatched[i] = i

C1_QueueOrder == \A i \in 1..Len(Queue) : Queue[i].id = Len(dispatched) + i

C1_AllDispatched == Outside /\ ~thrown => Len(dispatched) = nsent

C1_NoInterleaving ==
    \A i, j \in 1..Len(stack) :
        i < j /\ stack[i].fn \in UserFns => stack[j].fn \notin DrainFns

C1_FifoExactlyOnce ==
    /\ C1_DispatchOrder
    /\ C1_QueueOrder
    /\ C1_AllDispatched
    /\ C1_NoInterleaving

\* C2 (both engines): at most one activation of the drain loop
\* (flushEventQueue, the while loop of FiniteStateMachine.send) is on the call
\* stack at any time.
Drains == {i \in 1..Len(stack) : stack[i].fn \in DrainFns}

C2_SingleDrain == Cardinality(Drains) <= 1

\* C3 (StateMachine): once a state of type Final has been entered, isDone stays
\* true and the state never changes again, the done notification fires exactly
\* once over the run, and a later send returns the terminal state.  Stated for
\* the runs in which no callback or condition has thrown.
DoneCount == Cardinality({i \in 1..Len(notifs) : notifs[i].type = "done"})

FinalChanges ==
    {i \in 1..Len(notifs) : /\ notifs[i].type = "stateChange"
                            /\ Def(table, notifs[i].state).type = Final}

C3_FinalIsTerminal ==
    machine = "SM" /\ ~thrown /\ FinalChanges # {} =>
        LET k == CHOOSE i \in FinalChanges : \A j \in FinalChanges : i <= j
        IN  /\ isDone
            /\ internalState = notifs[k].state
            /\ \A j \in (k + 1)..Len(notifs) : notifs[j].type # "stateChange"
            /\ DoneCount <= 1
            /\ Outside => DoneCount = 1
            /\ Outside /\ result.call = "send" => result = Return("send", notifs[k].state)

Range(s) == {s[i] : i \in DOMAIN s}

\* the onDidTransition notification of the transitionTo call t
Fired(t) == [type |-> "transition", event |-> t.ev, state |-> t.next, fromState |-> t.from]

EntersFinal(t) == FDef(definition, t.next.stateName).kind = Final

\* C4 (FiniteStateMachine): transitionTo runs the onExit handlers while the old
\* state is still current, then swaps the current state, then fires
\* onDidTransition with the event, the new state and the from-state, then runs
\* the onEnter handlers with the new state current, and marks the instance
\* finished only after that when the entered state is Final.
C4_ExitInOldState ==
    \A i \in 1..Len(stack) :
        /\ stack[i].fn = "trans" /\ stack[i].pc = "exit" =>
              currentState = stack[i].from /\ Fired(stack[i]) \notin Range(notifs)
        /\ stack[i].fn \in {"exec", "fcond"} /\ stack[i].kind = "exit" =>
              stack[i].actual = stack[i].expected

C4_NotifiedAfterSwap ==
    \A i \in 1..Len(stack) :
        stack[i].fn = "trans" /\ stack[i].pc \in {"fire", "enter"} =>
            /\ Fired(stack[i]) \in Range(notifs)
            /\ stack[i].pc = "fire" /\ i = Len(stack) - 1 /\ notifs[Len(notifs)] = Fired(stack[i])
                  => currentState = stack[i].next /\ Top.expected = stack[i].next

C4_EnterInNewState ==
    \A i \in 1..Len(stack) :
        stack[i].fn \in {"exec", "fcond"} /\ stack[i].kind = "enter" =>
            stack[i].actual = stack[i].expected

C4_FinishedLast ==
    \A i \in 1..Len(stack) :
        stack[i].fn = "trans" /\ EntersFinal(stack[i]) => lifecycle = "started"

C4_TransitionOrder ==
    machine = "FSM" =>
        /\ C4_ExitInOldState
        /\ C4_NotifiedAfterSwap
        /\ C4_EnterInNewState
        /\ C4_FinishedLast

Runs == {i \in 1..Len(stack) : stack[i].fn = "run"}

Increasing(s) == \A i, j \in 1..Len(s) : i < j => s[i] < s[j]

\* C5 (FiniteStateMachine): in every call of runHandlers the handlers are
\* decided in declaration order; a handler is passed over exactly when its
\* condition is present and returned false; every other handler decided is
\* called; a called execute handler is followed by the next handler of the
\* list, and the first transition handler called ends the loop, so that no
\* handler after it is decided or called, whether or not the computed state has
\* the name of the current one.
C5_InOrder(r) ==
    /\ Increasing(r.ran) /\ Increasing(r.skipped)
    /\ Range(r.ran) \cap Range(r.skipped) = {}
    /\ Range(r.ran) \cup Range(r.skipped) = 1..Len(r.evals)
    /\ Len(r.evals) <= Len(r.handlers)
    /\ r.idx \in {Len(r.evals), Len(r.evals) + 1}

C5_Selection(r) ==
    \A k \in 1..Len(r.evals) :
        /\ r.evals[k] = "none" <=> ~r.handlers[k].condition
        /\ r.evals[k] = "false" <=> k \in Range(r.skipped)
        /\ r.evals[k] \in {"none", "true"} <=> k \in Range(r.ran)

C5_TransitionEnds(r) ==
    /\ \A k \in 1..(Len(r.ran) - 1) : r.handlers[r.ran[k]].type = "execute"
    /\ r.pc = "break" <=>
           r.ran # <<>> /\ r.handlers[r.ran[Len(r.ran)]].type = "transition"
    /\ r.pc = "break" => r.idx = r.ran[Len(r.ran)] /\ r.idx = Len(r.evals)

C5_HandlerEvaluation ==
    \A i \in Runs : C5_InOrder(stack[i]) /\ C5_Selection(stack[i]) /\ C5_TransitionEnds(stack[i])

\* the list of the event go in state P: the first handler (execute) was called,
\* the second passed over, the third (a transition to a state named P) ended
\* the loop and the fourth was never decided
C5_Witness ==
    /\ TopIs("run") /\ Top.kind = "event" /\ Top.pc = "break"
    /\ Len(Top.handlers) = 4
    /\ Top.evals = <<"true", "false", "none">>
    /\ Top.ran = <<1, 3>> /\ Top.skipped = <<2>>
    /\ Top.handlers[3].target.stateName = currentState.stateName
    /\ currentState = Top.expected

Flushes == {i \in 1..Len(stack) : stack[i].fn = "flush" /\ stack[i].ev # NoEvent}

\* the candidate transitions of the event that the flushEventQueue call f is
\* dispatching, looked up in the state the machine had when f shifted it
Candidates(f) == EligibleTransitions(Def(table, f.state), f.ev.name)

\* C6 (StateMachine): the candidate transitions of (current state, event) are
\* tried in declaration order; the first whose condition is absent or returns
\* true is taken and no later one is evaluated; an event without candidates, or
\* whose candidates all refuse, changes nothing.
C6_FirstAllowed(i) ==
    LET f == stack[i]
        n == Len(f.evals)
    IN  /\ n <= Len(Candidates(f))
        /\ \A k \in 1..n : f.evals[k] = "none" <=> ~Candidates(f)[k].condition
        /\ \A k \in 1..(n - 1) : f.evals[k] = "false"
        /\ f.pc = "for" => f.idx = n + 1 /\ (n > 0 => f.evals[n] = "false")
        /\ f.pc = "called" =>
              /\ n > 0 /\ f.idx = n /\ f.evals[n] \in {"none", "true"}
              /\ stack[i + 1].fn = "enter"
              /\ stack[i + 1].state = Candidates(f)[n].target
              /\ stack[i + 1].ev = f.ev
              /\ stack[i + 1].pc = "callbacks" => internalState = Candidates(f)[n].target

C6_Ignored(i) ==
    LET f == stack[i]
        refused == \A k \in 1..Len(f.evals) : f.evals[k] = "false"
    IN  /\ Candidates(f) = <<>> => f.evals = <<>> /\ f.pc = "loop"
        /\ i = Len(stack) /\ f.pc = "loop" /\ refused =>
              /\ Len(f.evals) = Len(Candidates(f))
              /\ internalState = f.state
              /\ Len(notifs) = f.nnotifs

\* the README catalogue: the state entered for each (state, event, guard)
C6_Readme(i) ==
    LET f == stack[i]
    IN  table.id = "readme" =>
          /\ f.state = "Idle" /\ f.ev.name = "Start" /\ f.pc = "called" =>
                \/ f.evals = <<"true">> /\ stack[i + 1].state = "Started"
                \/ f.evals = <<"false", "none">> /\ stack[i + 1].state = "Alarming"
          /\ f.state = "Started" /\ f.ev.name = "Start" => f.pc = "loop" /\ f.evals = <<>>
          /\ f.state = "Started" /\ f.ev.name = "Stop" /\ f.pc = "called" =>
                /\ f.evals = <<"none">> /\ stack[i + 1].state = "Stopped"
                /\ stack[i + 1].pc = "callbacks" => isDone
          /\ f.state \notin {"Idle", "Started"} => f.pc = "loop" /\ f.evals = <<>>

C6_TransitionSelection ==
    machine = "SM" => \A i \in Flushes : C6_FirstAllowed(i) /\ C6_Ignored(i) /\ C6_Readme(i)

\* README, guard false: Start from Idle has entered Alarming
C6_Witness ==
    /\ table.id = "readme" /\ Len(stack) = 4 /\ TopIs("cb") /\ Top.kind = "stateChange"
    /\ stack[2].fn = "flush" /\ stack[2].state = "Idle" /\ stack[2].ev.name = "Start"
    /\ stack[2].evals = <<"false", "none">>
    /\ internalState = "Alarming" /\ isDone

\* a send called from outside returns after its flushEventQueue call
SendReturns == machine = "SM" /\ Len(stack) = 2 /\ stack[1].fn = "send" /\ stack' = <<>>
                   /\ result'.status = "return"

\* the event of that send has one candidate transition, which has a condition
OneGuardedCandidate ==
    /\ stack[2].ev = stack[1].ev /\ stack[2].state = stack[1].state
    /\ Len(Candidates(stack[2])) = 1 /\ Candidates(stack[2])[1].condition

StateChange(event, state) == [type |-> "stateChange", event |-> event, state |-> state]

\* the condition returned false: same state, no notification, the state is returned
C7_Refused ==
    SendReturns /\ OneGuardedCandidate /\ stack[2].evals = <<"false">> =>
        /\ internalState' = stack[1].state
        /\ notifs' = notifs /\ Len(notifs) = stack[2].nnotifs
        /\ result' = Return("send", stack[1].state)

\* the condition returned true: the transition was performed and notified
C7_Performed ==
    SendReturns /\ OneGuardedCandidate /\ stack[2].evals = <<"true">> =>
        LET target == Candidates(stack[2])[1].target
        IN  /\ Len(notifs) > stack[2].nnotifs
            /\ notifs[stack[2].nnotifs + 1] = StateChange(stack[1].ev, target)
            /\ result' = Return("send", internalState')

ReentrancyError == Throw("send", "Events cannot be submitted while executing a condition test")

InCondition == machine = "SM" /\ TopIs("cond")

C8_SendRefused ==
    InCondition /\ stack' # <<>> /\ stack'[Len(stack')].fn = "cond" /\ stack' # stack =>
        /\ result' = ReentrancyError
        /\ stack' = Append(Below, [Top EXCEPT !.refused = TRUE])
        /\ UNCHANGED <<smvars, nsent, dispatched, notifs>>

C8_OuterUnaffected ==
    InCondition =>
        /\ executingCondition
        /\ UNCHANGED <<internalState, eventQueue, nsent, dispatched, notifs,
                       pendingCancellations, tokens>> \/ stack'[Len(stack')].fn = "enter"
        /\ stack' = <<>> =>
              /\ internalState' = stack[Len(stack) - 1].state
              /\ Len(notifs') = stack[Len(stack) - 1].nnotifs
              /\ ~executingCondition'

C8_ReentrantSendFails == [][C8_SendRefused /\ C8_OuterUnaffected]_vars

\* a condition whose send has just been refused
C8_Witness ==
    /\ InCondition /\ Top.refused /\ result = ReentrancyError
    /\ executingCondition /\ nsent = 1 /\ eventQueue = <<>> /\ dispatched = <<1>>

\* C9 (StateMachine): when the machine changes to a different state, every
\* token handed to an earlier onEnter callback has been cancelled and disposed,
\* oldest first, before the state-change notification fires and before the new
\* onEnter callback starts; the token of the new onEnter is registered and not
\* cancelled when that callback starts.
C9_CancelledBeforeEntry ==
    machine = "SM" /\ TopIs("cb") /\ Top.changed =>
        /\ (1..tokens.created) \ {Top.tok} \subseteq Range(tokens.cancelled)
        /\ tokens.disposed = tokens.cancelled
        /\ Increasing(tokens.cancelled)
        /\ Top.tok # 0 => /\ pendingCancellations = <<Top.tok>>
                          /\ Top.tok = tokens.created
                          /\ Top.tok \notin Range(tokens.cancelled)
        /\ Top.tok = 0 => pendingCancellations = <<>>

\* the onEnter callback of a newly entered state starts after the two tokens
\* of the state left (entered, then re-entered by a self-transition) were
\* cancelled together, oldest first
C9_Witness ==
    /\ machine = "SM" /\ TopIs("cb") /\ Top.kind = "onEnter" /\ Top.changed
    /\ Top.tok = 3 /\ tokens.cancelled = <<1, 2>> /\ tokens.disposed = <<1, 2>>
    /\ pendingCancellations = <<3>>

\* C10 (FiniteStateMachine): when a state of kind Final has been entered the
\* instance is marked finished and onDidFinish has fired exactly once.
FinishCount == Cardinality({i \in 1..Len(notifs) : notifs[i].type = "finish"})

C10_FinishNotified ==
    machine = "FSM" =>
        /\ FinishCount <= 1
        /\ lifecycle = "finished" => FinishCount = 1

\* C11 (StateMachine): a send before start() fails with an error and changes
\* nothing: the state stays undefined, nothing is queued, no callback or
\* notification runs; the only other step of a machine that was not started is
\* start(), which enters the initial state as if no send had been tried.
NotStartedError ==
    Throw("send", "Attempting to send an event to a state machine that has not been started")

\* a call of dispose() from outside
DisposeFromOutside == result' = Return("dispose", "undefined") /\ stack' = stack

StartEntersInitial ==
    /\ internalState' = table.initial
    /\ Len(stack') = 2 /\ stack'[1] = StartFrame
    /\ stack'[2].fn = "enter" /\ stack'[2].state = table.initial /\ stack'[2].changed
    /\ stack'[2].ev = Initialize
    /\ stack'[2].callbacks = Callbacks(Def(table, table.initial), TRUE)
    /\ UNCHANGED <<eventQueue, nsent, dispatched, notifs>>

FinalStates(t) == {i \in 1..Len(t.states) : t.states[i].type = Final}

\* C12 (StateMachine): the constructor fails with an error, and there is no
\* instance to start or to send to, when no state of the table has type Final;
\* a table that has a Final state and whose Final states declare no
\* transitions is accepted.
C12_NeedsFinal ==
    machine = "SM" /\ phase # "new" =>
        /\ FinalStates(table) = {} =>
              /\ phase = "failed"
              /\ result = Throw("constructor", "TypeError: no final state")
              /\ internalState = Undefined /\ stack = <<>> /\ nsent = 0 /\ notifs = <<>>
        /\ FinalStates(table) # {} /\ (\A i \in FinalStates(table) : ~table.states[i].hasOn) =>
              phase = "constructed"

\* the test 'will throw a TypeError when no final states are provided'
C12_Witness ==
    /\ machine = "SM" /\ table.id = "nofinal" /\ phase = "failed"
    /\ result = Throw("constructor", "TypeError: no final state")

\* C13 (StateMachine): the constructor fails with an error whenever some
\* state of type Final declares on transitions, wherever that state stands in
\* the table and whatever other Final states there are.
C13_FinalWithOnRejected ==
    machine = "SM" /\ phase # "new"
        /\ (\E i \in FinalStates(table) : table.states[i].hasOn) =>
            phase = "failed" /\ result.status = "throw"

\* start() returns to its caller
StartReturns ==
    /\ stack # <<>> /\ stack[1].fn \in {"start", "fstart"}
    /\ stack' = <<>> /\ result'.call = "start" /\ result'.status = "return"

\* what start() itself fires and invokes for the initial state of a StateMachine
InitialEntry ==
    LET def == Def(table, table.initial)
        Entry(kind) == [type |-> kind, event |-> Initialize, state |-> table.initial]
    IN  <<Entry("stateChange")>>
        \o (IF def.onEnter THEN <<Entry("onEnter")>> ELSE <<>>)
        \o (IF def.type = Final THEN <<Entry("done")>> ELSE <<>>)

\* StateMachine: the entry of the initial state comes first and once; without
\* events sent before start() returns the machine is in the initial state
C14_StateMachineStart ==
    machine = "SM" /\ StartReturns =>
        /\ result' = Return("start", internalState)
        /\ Len(notifs) >= Len(InitialEntry)
        /\ SubSeq(notifs, 1, Len(InitialEntry)) = InitialEntry
        /\ nsent = 0 => internalState = table.initial /\ notifs = InitialEntry

\* FiniteStateMachine: start() has gone once, in order, through the onEnter
\* list of the initial state, up to the first transition handler selected;
\* without transition the machine is in the initial state
C14_FiniteStateMachineStart ==
    machine = "FSM" /\ StartReturns =>
        LET r == stack[2]
            n == Len(r.evals)
        IN  /\ r.fn = "run" /\ r.kind = "start" /\ r.expected = definition.initial
            /\ r.handlers = FDef(definition, definition.initial.stateName).onEnter
            /\ Increasing(r.ran) /\ Range(r.ran) \cup Range(r.skipped) = 1..n
            /\ \A k \in 1..n : k \in Range(r.ran) <=> r.evals[k] \in {"none", "true"}
            /\ n = Len(r.handlers) \/ r.handlers[n].type = "transition"
            /\ (\A k \in 1..Len(notifs) : notifs[k].type # "transition") =>
                  currentState = definition.initial
            /\ nsent = 0 /\ r.pc # "break" => notifs = <<>>

\* C14 as stated (both engines): when start() returns, the current state is
\* the initial state and the entry handlers of the initial state have been
\* invoked exactly once.
C14_StartedInInitial ==
    [][/\ C14_StateMachineStart
       /\ C14_FiniteStateMachineStart
       /\ StartReturns =>
             IF machine = "SM" THEN internalState' = table.initial
             ELSE currentState' = definition.initial]_vars

\* C14 amended (both engines): when start() returns, the entry handlers of the
\* initial state have been invoked once by start, in order (FiniteStateMachine:
\* up to the first entry transition handler selected); the current state is
\* the initial state when no event was sent before start() returned and no
\* entry transition handler was selected.
C14_StartRunsEntryOnce ==
    [][/\ C14_StateMachineStart
       /\ C14_FiniteStateMachineStart
       /\ StartReturns /\ nsent = 0 /\ (machine = "FSM" => stack[2].pc # "break") =>
             IF machine = "SM" THEN internalState' = table.initial
             ELSE currentState' = definition.initial]_vars

\* start() of the machine with entry handlers has returned: the execute
\* handler of P was called, the entry transition was refused by its condition
C14_Witness ==
    /\ machine = "FSM" /\ definition.id = "handlers" /\ Outside
    /\ result = Return("start", "undefined")
    /\ currentState = definition.initial /\ lifecycle = "started"
    /\ nsent = 0 /\ notifs = <<>>

Started == IF machine = "SM" THEN internalState # Undefined ELSE lifecycle # "initial"

AlreadyStartedError ==
    IF machine = "SM"
    THEN Throw("start", "Attempting to start a state machine that is already started")
    ELSE Throw("start", "The state machine can't be started")

\* a call of send from outside: the event is accepted, or the call is ignored
SendFromOutside ==
    \/ nsent' = nsent + 1
    \/ result' = Return("send", "ignored") /\ stack' = stack

\* C15 (both engines): start() on a machine that was started, or has finished,
\* fails with an error and leaves the current state, the queue and the
\* lifecycle phase as they are; no entry handler runs.  Every call from outside
\* on a started machine that is not a send is such a failed start.
C15_StartTwiceFails ==
    [][Outside /\ phase = "constructed" /\ Started /\ ~SendFromOutside
         /\ ~DisposeFromOutside =>
          /\ result' = AlreadyStartedError
          /\ UNCHANGED <<phase, smvars, fsmvars, stack, nsent, dispatched, notifs, thrown>>]_vars

\* a finished FiniteStateMachine has refused to start again
C15_Witness ==
    /\ machine = "FSM" /\ Outside /\ lifecycle = "finished"
    /\ result = AlreadyStartedError
    /\ FDef(definition, currentState.stateName).kind = Final

\* ---- C16: events sent during a drain against the same events sent from outside ----

\* positions in notifs of the events handed to handleEvent, in order
Received ==
    SelectSeq([i \in 1..Len(notifs) |-> i], LAMBDA i : notifs[i].type = "received")

\* the transitions made while the event received at position i was handled
TransitionsOf(i) ==
    {k \in i..Len(notifs) : notifs[k].type = "transition" /\ notifs[k].event = notifs[i].event}

\* the state the handling of that event left the machine in
EffectOf(i) ==
    IF TransitionsOf(i) = {} THEN notifs[i].state
    ELSE notifs[CHOOSE k \in TransitionsOf(i) : \A l \in TransitionsOf(i) : l <= k].state

\* the handling of that event entered a Final state, which finishes the machine
Finalizes(i) ==
    \E k \in TransitionsOf(i) : FDef(definition, notifs[k].state.stateName).kind = Final

Diverged == [stateName |-> "diverged", data |-> 0]

\* The same events sent one at a time from outside, each after the previous
\* send has returned, with every handler behaving as it did: an event sent to a
\* finished machine is ignored (send returns at once), any other event found
\* in the state it was handled in has the effect that was observed for it.
RECURSIVE SentOneAtATime(_, _, _)
SentOneAtATime(j, state, finished) ==
    IF j > Len(Received) THEN state
    ELSE LET i == Received[j]
         IN  IF finished THEN SentOneAtATime(j + 1, state, finished)
             ELSE IF state = notifs[i].state
                  THEN SentOneAtATime(j + 1, EffectOf(i), Finalizes(i))
                  ELSE Diverged

\* start() had returned before the first event was handled
StartedBeforeEvents ==
    \A i, k \in 1..Len(notifs) :
        notifs[i].type = "received" /\ notifs[k].event = StartEvent => k < i

\* C16 (both engines): when the machine is idle again and nothing was thrown,
\* the state it is in is the state reached by sending the same events one at a
\* time from outside, each after the previous drain has completed.  For
\* StateMachine, which ignores no event, that state is the one of the last
\* state change; for FiniteStateMachine it is SentOneAtATime.
C16_FifoConfluence ==
    Outside /\ ~thrown /\ phase = "constructed" /\ Started =>
        IF machine = "SM"
        THEN \A i \in 1..Len(notifs) :
                 (notifs[i].type = "stateChange"
                    /\ \A k \in (i + 1)..Len(notifs) : notifs[k].type # "stateChange")
                 => internalState = notifs[i].state
        ELSE (Received # <<>> /\ StartedBeforeEvents /\ bufferedEvents = <<>>) =>
                 currentState = SentOneAtATime(1, notifs[Received[1]].state, FALSE)

\* ---- C17: execute handlers leave the current state alone ----

\* C17 (FiniteStateMachine): whenever an execute handler is running its own
\* code, and so when it returns, the current state is the state the handler
\* was invoked with; this covers event, exit and entry handlers, the entry
\* handlers run by start() included, and handlers that call send.
C17_ExecuteKeepsState ==
    machine = "FSM" /\ TopIs("exec") => currentState = Top.actual

\* ---- C18: a handler that throws ----

\* a condition, a transition function, an execute function or an onEnter
\* callback throws: the step that unwinds the calls from user code
HandlerThrows ==
    /\ stack # <<>> /\ stack' = <<>>
    /\ \/ Top.fn \in {"cond", "cb", "fcond", "exec"}
       \/ RunActive /\ Top.handlers[Top.idx].type = "transition"

\* the current state at the time the function on top of the stack was invoked
InvokedWith == IF Top.fn = "run" THEN currentState ELSE Top.actual

StateNow == IF machine = "SM" THEN internalState ELSE currentState

\* C18 (both engines): a throw of a condition, transition, execute or onEnter
\* function unwinds every call of the engine and reaches the caller of send or
\* start as an error, and the current state is then the state the machine was
\* in when the function that threw was invoked.
C18_ThrowKeepsState ==
    [][HandlerThrows =>
          /\ result'.status = "throw" /\ result'.call = stack[1].fn
          /\ result'.call \in {"send", "start", "fsend", "fstart"}
          /\ StateNow' = InvokedWith]_vars

\* ---- C19: send from a condition of FiniteStateMachine ----

\* a step taken by a running condition that is neither its return nor its
\* throw: the condition calls send
SendFromCondition ==
    /\ machine = "FSM" /\ TopIs("fcond")
    /\ Len(stack') >= Len(stack) /\ stack'[Len(stack)].fn = "fcond"

\* C19 (FiniteStateMachine): a send made while a condition function is
\* executing fails with an error, and its event is neither put in the buffer
\* nor handled.
C19_SendInConditionRefused ==
    [][SendFromCondition =>
          /\ result'.status = "throw" /\ result'.call = "send"
          /\ UNCHANGED <<bufferedEvents, nsent, dispatched, currentState>>]_vars

\* ---- C20: send to a FiniteStateMachine that was not started ----

\* C20 (FiniteStateMachine): a send on an instance that was constructed and
\* not started fails with an error and leaves the buffer as it is.  On such
\* an instance every call from outside that is not start() is a send.
C20_SendBeforeStartFails ==
    [][machine = "FSM" /\ phase = "constructed" /\ lifecycle = "initial" /\ Outside
         /\ lifecycle' = "initial" =>
          /\ result'.status = "throw" /\ result'.call = "send"
          /\ UNCHANGED <<bufferedEvents, nsent>>]_vars

\* ---- C21: dispose() of StateMachine ----

\* the token sources in pendingCancellations that were not cancelled
Uncancelled(pending, toks) ==
    {i \in 1..Len(pending) : \A k \in 1..Len(toks.cancelled) : toks.cancelled[k] # pending[i]}

\* C21 (StateMachine): a call of dispose() leaves no emitter registered and no
\* token source of pendingCancellations un-cancelled, and a call of dispose()
\* on an instance that was disposed before changes nothing.
C21_DisposeReleases ==
    [][machine = "SM" /\ phase = "constructed" /\ DisposeFromOutside =>
          /\ toDispose' = <<>>
          /\ Uncancelled(pendingCancellations', tokens') = {}
          /\ toDispose = <<>> => UNCHANGED smvars]_vars

\* ---- C22: the catalogue of an instance and later calls on its builder ----

\* C22 (FiniteStateMachine): a call on the builder made after instantiate()
\* has returned, declaring a new state or adding a handler to a declared
\* state, changes no handler list of the catalogue the instance dispatches on.
C22_CatalogueImmutable ==
    [][machine = "FSM" /\ phase = "constructed" /\ builder' # builder =>
          \A name \in StateNames(definition) :
              FDef(definition', name) = FDef(definition, name)]_vars

\* ---- C23: a transition handler that computes a state of the same name ----

\* the run frame at position i calls the transition handler it has selected
CallsTransition(i) ==
    /\ i \in 1..Len(stack) /\ i >= Len(stack) - 1
    /\ stack[i].fn = "run" /\ stack[i].pc = "loop"
    /\ Len(stack') >= i /\ stack'[i].fn = "run" /\ stack'[i].pc = "break"
    /\ \A k \in 1..(i - 1) : stack'[k] = stack[k]

\* the state computed by the handler a run frame is at
Computed(run) == run.handlers[run.idx].target

Applies ==
    /\ machine = "SM" /\ stack # <<>> /\ Top.fn \in {"flush", "cond"}
    /\ stack' # <<>> /\ stack'[Len(stack')].fn = "enter"

Entered == stack'[Len(stack')]

\* C24 (StateMachine): when an applied transition targets the current state,
\* the callbacks to run hold no state-change notification and, if the state
\* declares onEnter, the onEnter callback with a token source created for this
\* entry, not cancelled; and when that callback is invoked no state change was
\* notified for the event.
C24_SelfTransitionEnters ==
    /\ [][Applies /\ Entered.state = internalState =>
             /\ internalState' = internalState
             /\ \A k \in 1..Len(Entered.callbacks) : Entered.callbacks[k] # "stateChange"
             /\ Def(table, internalState).onEnter =>
                    /\ Entered.callbacks # <<>> /\ Head(Entered.callbacks) = "onEnter"
                    /\ Entered.tok = tokens.created + 1 /\ tokens'.created = Entered.tok
                    /\ pendingCancellations'[Len(pendingCancellations')] = Entered.tok
                    /\ \A k \in 1..Len(tokens'.cancelled) : tokens'.cancelled[k] # Entered.tok]_vars
    /\ [][machine = "SM" /\ TopIs("enter") /\ ~Top.changed /\ Top.callbacks # <<>>
             /\ Head(Top.callbacks) = "onEnter" /\ Len(stack') > Len(stack) =>
             /\ stack'[Len(stack')].fn = "cb" /\ stack'[Len(stack')].kind = "onEnter"
             /\ stack'[Len(stack')].tok = Top.tok
             /\ \A k \in 1..Len(notifs) :
                    notifs[k].type = "stateChange" => notifs[k].event # Top.ev]_vars

\* the onEnter callback of A runs for the self-transition of A
C24_Witness ==
    /\ machine = "SM" /\ table.id = "enter" /\ TopIs("cb") /\ Top.kind = "onEnter"
    /\ ~Top.changed /\ internalState = "A" /\ Top.state = "A" /\ Top.tok = 2
    /\ notifs[Len(notifs)].type = "onEnter" /\ notifs[Len(notifs)].event.name = "Go"

\* ---- C25: every call returns or throws ----

\* C25 (FiniteStateMachine part): the while loop of a send never tests its
\* condition in a configuration (current state, buffered events) in which it
\* tested it before in the same call.  From a repeated configuration,
\* handlers that do again what they did for the same state and event repeat
\* the same dispatch steps for ever, and the call neither returns nor throws.
C25_NoRepeatedConfiguration ==
    machine = "FSM" /\ TopIs("fsend") /\ bufferedEvents # <<>> => Configuration \notin Top.seen

\* ---- C26: the instance is idle between calls ----

\* C26 (both engines): whenever no call is executing on a constructed
\* instance, also after a call that ended with an error thrown by a handler
\* or callback, the re-entrancy flag is false and the event queue is empty.
C26_IdleBetweenCalls ==
    Outside /\ phase = "constructed" =>
        IF machine = "SM"
        THEN ~enqueueEvents /\ eventQueue = <<>>
        ELSE ~handlingEvent /\ bufferedEvents = <<>>

\* ---- C27: the lifecycle phase and the kind of the current state ----

\* C27 (FiniteStateMachine): whenever no call is executing on a started
\* instance and nothing was thrown, the lifecycle phase is 'finished' exactly
\* when the current state is a Final state.
C27_FinishedIffFinal ==
    machine = "FSM" /\ Outside /\ phase = "constructed" /\ lifecycle # "initial" /\ ~thrown =>
        (lifecycle = "finished" <=> FDef(definition, currentState.stateName).kind = Final)

\* ---- C28: nothing happens after the machine has finished ----

\* C28 (FiniteStateMachine): once the lifecycle phase is 'finished', the
\* current state does not change, no event is handed to handleEvent and no
\* handler list is started, whether the event was sent afterwards or was in
\* the buffer when the phase became 'finished'.
C28_FinishedIsFinal ==
    [][machine = "FSM" /\ lifecycle = "finished" =>
          /\ currentState' = currentState
          /\ dispatched' = dispatched
          /\ \A i \in 1..Len(stack') :
                 (stack'[i].fn = "run" /\ (i > Len(stack) \/ stack[i].fn # "run")) =>
                     stack'[i].kind \notin {"event", "exit", "enter"}]_vars

\* ---- C29: pending token sources of StateMachine ----

\* C29 (StateMachine): pendingCancellations never holds more than one token
\* source, and the one it holds is the token source of the most recent
\* onEnter invocation and is not cancelled.
C29_OnePendingToken ==
    machine = "SM" =>
        /\ Len(pendingCancellations) <= 1
        /\ pendingCancellations # <<>> =>
               /\ pendingCancellations[1] = tokens.created
               /\ \A k \in 1..Len(tokens.cancelled) :
                      tokens.cancelled[k] # pendingCancellations[1]

\* ---- C30: the machine of fromPromise ----

\* the state the settling of the promise leads to: the event sent by the
\* callback of promise.then decides between resolved and rejected
Settled(event) ==
    IF event = PromiseResolve THEN FState(PromiseResolved, 1) ELSE FState(PromiseRejected, 2)

\* C30 (fromPromise): between calls, a started machine of fromPromise is in
\* '@@promisePending' and not finished as long as the promise has not
\* settled; once the promise has settled it is in
\* the resolved state carrying the value, or in the rejected state carrying
\* the error, after exactly one transition, and it is finished.
C30_FromPromise ==
    (machine = "FSM" /\ definition.id = "fromPromise" /\ Outside /\ lifecycle # "initial") =>
        IF nsent = 0
        THEN currentState = FState(PromisePending, 0) /\ lifecycle = "started"
        ELSE /\ \E i \in 1..Len(notifs) :
                    /\ notifs[i].type = "received"
                    /\ currentState = Settled(notifs[i].event.name)
             /\ Cardinality({i \in 1..Len(notifs) : notifs[i].type = "transition"}) = 1
             /\ lifecycle = "finished"

NextSM ==
    \/ SM_Dispose
    \/ SM_Construct
    \/ SM_Start
    \/ \E e \in table.events : SM_Send(e)
    \/ SM_FlushNext
    \/ SM_TryTransition
    \/ \E b \in BOOLEAN : SM_ConditionReturn(b)
    \/ SM_ConditionThrow
    \/ SM_FlushDone
    \/ SM_RunCallback
    \/ SM_CallbackReturn
    \/ SM_CallbackThrow
    \/ SM_CallbacksDone

Init ==
    /\ machine \in {"SM", "FSM"}
    /\ phase = "new"
    /\ table \in (IF machine = "SM" THEN SMTables ELSE {NoTable})
    /\ definition \in (IF machine = "FSM" THEN FSMDefinitions ELSE {NoDefinition})
    /\ internalState = Undefined
    /\ eventQueue = <<>>
    /\ enqueueEvents = FALSE
    /\ executingCondition = FALSE
    /\ pendingCancellations = <<>>
    /\ tokens = [created |-> 0, cancelled |-> <<>>, disposed |-> <<>>]
    /\ toDispose = <<>>
    /\ builder = (IF machine = "FSM" THEN BuilderOf(definition) ELSE NoBuilder)
    /\ currentState = NoFState
    /\ bufferedEvents = <<>>
    /\ handlingEvent = FALSE
    /\ lifecycle = "initial"
    /\ stack = <<>>
    /\ nsent = 0
    /\ dispatched = <<>>
    /\ notifs = <<>>
    /\ result = NoResult
    /\ thrown = FALSE

Next == NextSM \/ NextFSM

Spec == Init /\ [][Next]_vars

====
